---- MODULE Spec2Model ----
(***************************************************************************)
(* The live telemetry engine of the traffic dashboard: the streaming       *)
(* snapshot merge and the rolling chart history of the live page, the      *)
(* start/stop/reset commands, and the initialize-then-start sequence of    *)
(* the scenario page.  One page is mounted at a time; requests stay in     *)
(* flight across navigation.                                               *)
(***************************************************************************)
EXTENDS Integers, Sequences, FiniteSets, TLC

VARIABLES
    variant,      \* which live page the build mounts at /live
    route,        \* the page on screen; "blank" once the React root is gone
    inst,         \* number of the page instance on screen (one per mount)
    status,       \* LiveControl: useState<SimulationState>
    dataHistory,  \* LiveControl (chart variant): useState<any[]>
    ws,           \* the WebSocket of the live page
    initializing, \* ScenarioSelection: useState(false)
    selectedId,   \* ScenarioSelection: useState<string | null>(null)
    pending,      \* the axios.post requests in flight, oldest first
    cmds,         \* handleControl / handleStop calls so far
    inits,        \* handleStartSimulation calls that sent a request so far
    msgs,         \* stream messages delivered so far
    merges,       \* samples appended since the history was last empty
    last,         \* the handler that ran last and what it showed
    logs,         \* AgentDecision: useState<DecisionLog[]>([])
    metrics,      \* DeepAnalytics: useState<ComparisonMetrics | null>(null)
    loading,      \* AgentDecision / DeepAnalytics: useState(true)
    interval,     \* the setInterval timer of the polling page
    polls,        \* the axios.get requests in flight, oldest first
    fetches,      \* fetchLogs / fetchMetrics calls so far
    fails,        \* polls that failed since the last one that succeeded
    newest        \* the latest-sent poll whose answer the page has stored

vars == <<variant, route, inst, status, dataHistory, ws, initializing,
          selectedId, pending, cmds, inits, msgs, merges, last,
          logs, metrics, loading, interval, polls, fetches, fails, newest>>

(* The state of the polling pages. *)
pollVars ==
    <<logs, metrics, loading, interval, polls, fetches, fails, newest>>

(* The state of the live and scenario pages that outlives a navigation. *)
engineVars == <<variant, pending, cmds, inits, msgs>>

-----------------------------------------------------------------------------
(* Bounds of the exploration *)

MaxMsgs == 2
MaxCmds == 2
MaxInits == 1
MaxMounts == 3
MaxTicks == 61
MaxPolls == 4
MaxLogs == 101
MaxVal == 3

-----------------------------------------------------------------------------
(* Values *)

HistoryCap == 50

Undefined == -1

Null == "null"

Empty == [k \in {} |-> TRUE]

(* useState<ComparisonMetrics | null>(null) *)
NullMetrics == Empty

ZeroMetrics == [waiting_time |-> 0, queue_length |-> 0, throughput |-> 0]

InitialStatus ==
    [step |-> 0, isRunning |-> FALSE,
     rl_metrics |-> ZeroMetrics, fixed_metrics |-> ZeroMetrics]

Variants == {"chart", "plain"}

Pages == {"home", "scenarios", "live", "analytics"}

ControlActions == {"start", "stop", "reset"}

ScenarioIds == {"", "hebbal"}

(* Streamed values.  A metrics object may be partial: the feed is JSON and  *)
(* nothing validates it.                                                    *)
StepVals == {1, 2}

RlVals == {[waiting_time |-> 5, queue_length |-> 3, throughput |-> 7]}

FixedVals == {[waiting_time |-> 9]}

DetailVals == {<<[id |-> "tls1", queue_length |-> 3]>>, <<[id |-> "tls1"]>>}

Opt(k, vals) == {Empty} \cup {k :> v : v \in vals}

Objects ==
    {a @@ b @@ c @@ d @@ e :
        a \in Opt("step", StepVals), b \in Opt("isRunning", BOOLEAN),
        c \in Opt("rl_metrics", RlVals), d \in Opt("fixed_metrics", FixedVals),
        e \in {Empty}}

(* A stream message is its text as JSON.parse sees it: not JSON at all, or *)
(* the JSON of an object, of a string, of a number, or of null.            *)
Messages ==
    {[kind |-> "object", props |-> o] : o \in Objects}
    \cup {[kind |-> "malformed", props |-> Empty],
          [kind |-> "string", props |-> ("0" :> "a")],
          [kind |-> "number", props |-> Empty],
          [kind |-> "null", props |-> Empty]}

-----------------------------------------------------------------------------
(* JavaScript semantics used by the handlers *)

JSONParseThrows(m) == m.kind = "malformed"

(* The own enumerable properties an object spread copies: an object's      *)
(* fields, a string's characters by index, nothing for a number or null.   *)
OwnProps(data) == data.props

Has(data, k) == k \in DOMAIN OwnProps(data)

(* obj.key of an object: undefined when the key is missing. *)
Field(obj, k) == IF k \in DOMAIN obj THEN obj[k] ELSE Undefined

(* data.rl_metrics.waiting_time and data.fixed_metrics.waiting_time throw  *)
(* a TypeError when data is null or the metrics object is missing.         *)
SampleThrows(data) ==
    \/ data.kind = "null"
    \/ ~Has(data, "rl_metrics")
    \/ ~Has(data, "fixed_metrics")

(* A quotient, kept exact: num / den. *)
Ratio(num, den) == [num |-> num, den |-> den]

(* What arithmetic on undefined gives. *)
NaN == Ratio(0, 0)

(* q.toFixed(1), in tenths: the nearest tenth, a half rounded away from    *)
(* zero.                                                                   *)
ToFixed1(q) ==
    IF q.num >= 0
    THEN (2 * 10 * q.num + q.den) \div (2 * q.den)
    ELSE 0 - ((2 * 10 * (0 - q.num) + q.den) \div (2 * q.den))

-----------------------------------------------------------------------------
(* Pure state transformers of the live page *)

(* A merge that descends into the metrics objects. *)
MergeSnapshotDeep(prev, data) ==
    [k \in DOMAIN prev \cup DOMAIN OwnProps(data) |->
        IF k \in DOMAIN OwnProps(data)
        THEN IF k \in {"rl_metrics", "fixed_metrics"} /\ k \in DOMAIN prev
             THEN [f \in DOMAIN prev[k] \cup DOMAIN OwnProps(data)[k] |->
                     IF f \in DOMAIN OwnProps(data)[k]
                     THEN OwnProps(data)[k][f] ELSE prev[k][f]]
             ELSE OwnProps(data)[k]
        ELSE prev[k]]

(* A merge that lets the local isRunning win over the snapshot's. *)
MergeSnapshotKeepsLocal(prev, data) ==
    [k \in DOMAIN prev \cup DOMAIN OwnProps(data) |->
        IF k \in DOMAIN OwnProps(data) /\ (k # "isRunning" \/ k \notin DOMAIN prev)
        THEN OwnProps(data)[k] ELSE prev[k]]

(* setStatus(prev => ({ ...prev, ...data })) *)
MergeSnapshot(prev, data) ==
    [k \in DOMAIN prev \cup DOMAIN OwnProps(data) |->
        IF k \in DOMAIN OwnProps(data) THEN OwnProps(data)[k] ELSE prev[k]]

(* { step: data.step, rl_wait: ..., fixed_wait: ... } *)
HistorySample(data) ==
    [step |-> Field(OwnProps(data), "step"),
     rl_wait |-> Field(OwnProps(data)["rl_metrics"], "waiting_time"),
     fixed_wait |-> Field(OwnProps(data)["fixed_metrics"], "waiting_time")]

(* array.slice(0, n): keeps the oldest instead of the newest. *)
SliceFirst(s, n) == IF Len(s) <= n THEN s ELSE SubSeq(s, 1, n)

(* array.slice(-n) *)
SliceLast(s, n) ==
    IF Len(s) <= n THEN s ELSE SubSeq(s, Len(s) - n + 1, Len(s))

(* An append that skips a sample whose step the newest sample has. *)
AppendHistoryDedup(prev, data) ==
    IF Len(prev) > 0 /\ prev[Len(prev)].step = HistorySample(data).step
    THEN prev
    ELSE SliceLast(Append(prev, HistorySample(data)), HistoryCap)

(* The append without the slice. *)
AppendHistoryUnbounded(prev, data) == Append(prev, HistorySample(data))

(* setDataHistory(prev => [...prev, sample].slice(-50)) *)
AppendHistory(prev, data) ==
    SliceLast(Append(prev, HistorySample(data)), HistoryCap)

(* A start or stop that writes a fresh state instead of spreading s. *)
ControlTransitionFresh(action, s) ==
    CASE action = "start" -> [InitialStatus EXCEPT !["isRunning"] = TRUE]
      [] action = "stop" -> InitialStatus
      [] action = "reset" -> InitialStatus

(* The setStatus call of a confirmed command. *)
ControlTransition(action, s) ==
    CASE action = "start" -> [s EXCEPT !["isRunning"] = TRUE]
      [] action = "stop" -> [s EXCEPT !["isRunning"] = FALSE]
      [] action = "reset" -> InitialStatus

(* A reset that forgets setDataHistory([]). *)
ControlHistoryKept(action, h) == h

(* The setDataHistory call of a confirmed command. *)
ControlHistory(action, h) == IF action = "reset" THEN <<>> ELSE h

(* A catch block that applies the transition all the same. *)
ControlCatchApplies(action, s) == ControlTransition(action, s)

(* The catch block of a command: console.error only. *)
ControlCatch(action, s) == s

-----------------------------------------------------------------------------
(* Which controls the live page renders *)

ButtonShown(action) ==
    IF variant = "chart"
    THEN CASE action = "start" -> ~status["isRunning"]
           [] action = "stop" -> status["isRunning"]
           [] action = "reset" -> TRUE
    ELSE action = "stop" /\ status["isRunning"]

LiveLinks ==
    IF variant = "chart" THEN {"scenarios", "analytics"}
    ELSE {"home", "analytics"} \cup
         (IF status["isRunning"] THEN {} ELSE {"scenarios"})

(* The quotient without the test of its divisor. *)
EfficiencyGainUnguarded(s) ==
    LET f == Field(s["fixed_metrics"], "waiting_time")
        r == Field(s["rl_metrics"], "waiting_time")
    IN  Ratio((f - r) * 100, f)

(* EFFICIENCY GAIN of the chart page: the number it formats. *)
EfficiencyGain(s) ==
    LET f == Field(s["fixed_metrics"], "waiting_time")
        r == Field(s["rl_metrics"], "waiting_time")
    IN  IF f > 0
        THEN IF r = Undefined THEN NaN ELSE Ratio((f - r) * 100, f)
        ELSE Ratio(0, 1)

(* The text of the card, in tenths of a percent: toFixed(1) of the gain,   *)
(* or '0.0%'.                                                              *)
EfficiencyGainText(s) ==
    IF Field(s["fixed_metrics"], "waiting_time") > 0
    THEN ToFixed1(EfficiencyGain(s))
    ELSE 0

(* by: the page instance whose handler ran; alert: it called alert();     *)
(* data: the response body the handler stored, when it stores one;        *)
(* seq: the number of the poll it answers.                                *)
Event(op, arg, ok, by) ==
    [op |-> op, arg |-> arg, ok |-> ok, by |-> by, alert |-> FALSE,
     data |-> Empty, seq |-> 0]

(* The handler was given the answer to the n-th poll. *)
Numbered(e, n) == [e EXCEPT !.seq = n]

(* The handler stored the response body data. *)
Answered(e, data) == [e EXCEPT !.data = data]

(* The catch block of handleStartSimulation: console.error and alert(). *)
StartSimulationCatch(e) == [e EXCEPT !.alert = TRUE]

(* s without its element i *)
Remove(s, i) == SubSeq(s, 1, i - 1) \o SubSeq(s, i + 1, Len(s))

ControlReqs == {i \in DOMAIN pending : pending[i].from = "control"}

InitReqs == {i \in DOMAIN pending : pending[i].url = "initialize"}

-----------------------------------------------------------------------------
(* Mounting and unmounting *)

(* An effect that returns no cleanup: the socket outlives the page. *)
EffectCleanupMissing(w) == w

(* return () => ws.close(): the cleanup of the effect that opened the     *)
(* socket.                                                                *)
EffectCleanup(w) == "closed"

(* navigate(target): the page on screen is unmounted (the live page closes *)
(* its socket and its state is gone) and the target is mounted with the    *)
(* initial values of its useState calls.  A navigation to the page already *)
(* on screen, or after the root is gone, renders nothing new.              *)
Navigate(target) ==
    IF route = target \/ route = "blank"
    THEN UNCHANGED <<route, inst, status, dataHistory, ws, merges,
                     initializing, selectedId>>
    ELSE /\ route' = target
         /\ inst' = inst + 1
         /\ IF target = "live"
            THEN /\ status' = InitialStatus
                 /\ dataHistory' = <<>>
                 /\ ws' = "connecting"
            ELSE /\ status' = Empty
                 /\ dataHistory' = <<>>
                 /\ ws' = IF route = "live" THEN EffectCleanup(ws) ELSE ws
         /\ merges' = 0
         /\ initializing' = FALSE
         /\ selectedId' = Null

-----------------------------------------------------------------------------
(* The live page *)

(* An updater that throws fails the render; with no error boundary React   *)
(* unmounts the root, and the effect cleanup closes the socket.            *)
RenderCrash ==
    /\ route' = "blank"
    /\ status' = Empty
    /\ dataHistory' = <<>>
    /\ ws' = EffectCleanup(ws)
    /\ merges' = 0

(* ws.onmessage *)
OnMessage(m) ==
    /\ route = "live"
    /\ ws = "open"
    /\ msgs' = msgs + 1
    /\ UNCHANGED <<variant, inst, initializing, selectedId, pending, cmds,
                   inits>>
    /\ IF JSONParseThrows(m)
       THEN /\ UNCHANGED <<route, status, dataHistory, ws, merges>>
            /\ last' = Event("message", m.kind, FALSE, inst)
       ELSE IF variant = "chart" /\ SampleThrows(m)
       THEN /\ RenderCrash
            /\ last' = Event("message", m.kind, FALSE, inst)
       ELSE /\ status' = MergeSnapshot(status, m)
            /\ IF variant = "chart"
               THEN /\ dataHistory' = AppendHistory(dataHistory, m)
                    /\ merges' = merges + 1
               ELSE UNCHANGED <<dataHistory, merges>>
            /\ UNCHANGED <<route, ws>>
            /\ last' = Event("message", m.kind, TRUE, inst)
    /\ UNCHANGED pollVars

Receive ==
    /\ msgs < MaxMsgs
    /\ \E m \in Messages : OnMessage(m)

(* ws.onopen: console.log only. *)
ConnectionOpens ==
    /\ route = "live"
    /\ ws = "connecting"
    /\ ws' = "open"
    /\ last' = Event("wsopen", "", TRUE, inst)
    /\ UNCHANGED <<variant, route, inst, status, dataHistory, initializing,
                   selectedId, pending, cmds, inits, msgs, merges>>
    /\ UNCHANGED pollVars

(* A close handler that opens a new socket. *)
ConnectionLostReconnects ==
    /\ route = "live"
    /\ ws \in {"connecting", "open"}
    /\ ws' = "connecting"
    /\ last' = Event("wsclose", "", TRUE, inst)
    /\ UNCHANGED <<variant, route, inst, status, dataHistory, initializing,
                   selectedId, pending, cmds, inits, msgs, merges>>
    /\ UNCHANGED pollVars

(* The connection fails to open or drops; nothing reopens it. *)
ConnectionLost ==
    /\ route = "live"
    /\ ws \in {"connecting", "open"}
    /\ ws' = "closed"
    /\ last' = Event("wsclose", "", TRUE, inst)
    /\ UNCHANGED <<variant, route, inst, status, dataHistory, initializing,
                   selectedId, pending, cmds, inits, msgs, merges>>
    /\ UNCHANGED pollVars

(* The same POST sent twice. *)
ControlRequestTwice(action) ==
    <<[url |-> action, from |-> "control", body |-> "", inst |-> inst],
      [url |-> action, from |-> "control", body |-> "", inst |-> inst]>>

(* await axios.post(`/api/simulation/${action}`): the requests one call of *)
(* the handler sends.                                                      *)
ControlRequest(action) ==
    <<[url |-> action, from |-> "control", body |-> "", inst |-> inst]>>

(* The transition applied before the await instead of after it. *)
HandleControlOptimistic(action) ==
    /\ route = "live"
    /\ ButtonShown(action)
    /\ cmds < MaxCmds
    /\ pending' = pending \o ControlRequest(action)
    /\ cmds' = cmds + 1
    /\ status' = ControlTransition(action, status)
    /\ last' = Event("issue", action, TRUE, inst)
    /\ UNCHANGED <<variant, route, inst, dataHistory, ws, initializing,
                   selectedId, inits, msgs, merges>>
    /\ UNCHANGED pollVars

(* handleControl(action) / handleStop up to the await *)
HandleControl(action) ==
    /\ route = "live"
    /\ ButtonShown(action)
    /\ cmds < MaxCmds
    /\ pending' = pending \o ControlRequest(action)
    /\ cmds' = cmds + 1
    /\ last' = Event("issue", action, TRUE, inst)
    /\ UNCHANGED <<variant, route, inst, status, dataHistory, ws,
                   initializing, selectedId, inits, msgs, merges>>
    /\ UNCHANGED pollVars

(* The request resolved: the rest of the try block.  setState of an        *)
(* instance that is no longer mounted does nothing.                        *)
ControlSucceeds(i) ==
    /\ i \in ControlReqs
    /\ pending' = Remove(pending, i)
    /\ IF route = "live" /\ pending[i].inst = inst
       THEN /\ status' = ControlTransition(pending[i].url, status)
            /\ dataHistory' = ControlHistory(pending[i].url, dataHistory)
            /\ merges' = IF pending[i].url = "reset" THEN 0 ELSE merges
       ELSE UNCHANGED <<status, dataHistory, merges>>
    /\ last' = Event("response", pending[i].url, TRUE, pending[i].inst)
    /\ UNCHANGED <<variant, route, inst, ws, initializing, selectedId,
                   cmds, inits, msgs>>
    /\ UNCHANGED pollVars

(* The request rejected: the catch block. *)
ControlFails(i) ==
    /\ i \in ControlReqs
    /\ pending' = Remove(pending, i)
    /\ IF route = "live" /\ pending[i].inst = inst
       THEN status' = ControlCatch(pending[i].url, status)
       ELSE UNCHANGED status
    /\ last' = Event("response", pending[i].url, FALSE, pending[i].inst)
    /\ UNCHANGED <<variant, route, inst, dataHistory, ws, initializing,
                   selectedId, cmds, inits, msgs, merges>>
    /\ UNCHANGED pollVars

(* The navigation buttons of the live page. *)
LeaveLive(target) ==
    /\ route = "live"
    /\ target \in LiveLinks
    /\ inst < MaxMounts
    /\ Navigate(target)
    /\ last' = Event("nav", target, TRUE, inst)
    /\ UNCHANGED <<variant, pending, cmds, inits, msgs>>
    /\ UNCHANGED pollVars

-----------------------------------------------------------------------------
(* The scenario page *)

Falsy(x) == x = "" \/ x = Null

(* A handler without its finally block. *)
FinallyInitializingMissing(i) == initializing

(* setInitializing(false) in the finally block reaches only the instance   *)
(* that made the call, and only while it is mounted.                       *)
FinallyInitializing(i) ==
    IF route = "scenarios" /\ pending[i].inst = inst THEN FALSE
    ELSE initializing

(* The card's onClick: setSelectedId(scenario.id). *)
SelectScenario(id) ==
    /\ route = "scenarios"
    /\ selectedId # id
    /\ selectedId' = id
    /\ last' = Event("select", id, TRUE, inst)
    /\ UNCHANGED <<variant, route, inst, status, dataHistory, ws,
                   initializing, pending, cmds, inits, msgs, merges>>
    /\ UNCHANGED pollVars

(* The INITIALIZE button: onClick, then handleStartSimulation(id) up to    *)
(* its first await.  selectedId inside the handler is the value of the     *)
(* render the handler was created in.                                      *)
HandleStartSimulation(id) ==
    /\ route = "scenarios"
    /\ ~initializing
    /\ inits < MaxInits
    /\ selectedId' = id
    /\ LET targetId == IF Falsy(id) THEN selectedId ELSE id
       IN  IF Falsy(targetId)
           THEN /\ UNCHANGED <<initializing, pending, inits>>
                /\ last' = Event("initialize", id, FALSE, inst)
           ELSE /\ initializing' = TRUE
                /\ pending' = Append(pending, [url |-> "initialize",
                                               from |-> "scenario",
                                               body |-> targetId,
                                               inst |-> inst])
                /\ inits' = inits + 1
                /\ last' = Event("initialize", id, TRUE, inst)
    /\ UNCHANGED <<variant, route, inst, status, dataHistory, ws, cmds,
                   msgs, merges>>
    /\ UNCHANGED pollVars

(* The auto-start sent whatever initialize answered. *)
AfterInitializeAlways(r, ok) ==
    <<[url |-> "start", from |-> "scenario", body |-> "", inst |-> r.inst]>>

(* The requests the handler sends once initialize has resolved: the     *)
(* auto-start when it succeeded, none when it threw.                     *)
AfterInitialize(r, ok) ==
    IF ok THEN <<[url |-> "start", from |-> "scenario", body |-> "",
                  inst |-> r.inst]>>
    ELSE <<>>

(* initialize resolved: the auto-start request follows at once. *)
InitializeSucceeds(i) ==
    /\ i \in InitReqs
    /\ pending' = Remove(pending, i) \o AfterInitialize(pending[i], TRUE)
    /\ last' = Event("response", "initialize", TRUE, pending[i].inst)
    /\ UNCHANGED <<variant, route, inst, status, dataHistory, ws,
                   initializing, selectedId, cmds, inits, msgs,
                   merges>>
    /\ UNCHANGED pollVars

(* initialize rejected: catch (alert) and finally. *)
InitializeFails(i) ==
    /\ i \in InitReqs
    /\ pending' = Remove(pending, i) \o AfterInitialize(pending[i], FALSE)
    /\ initializing' = FinallyInitializing(i)
    /\ last' = StartSimulationCatch(
                  Event("response", "initialize", FALSE, pending[i].inst))
    /\ UNCHANGED <<variant, route, inst, status, dataHistory, ws,
                   selectedId, cmds, inits, msgs, merges>>
    /\ UNCHANGED pollVars

AutoStartReqs ==
    {i \in DOMAIN pending :
        pending[i].url = "start" /\ pending[i].from = "scenario"}

(* The auto-start resolved: navigate('/live'), then finally. *)
AutoStartSucceeds(i) ==
    /\ i \in AutoStartReqs
    /\ route \in {"live", "blank"} \/ inst < MaxMounts
    /\ pending' = Remove(pending, i)
    /\ Navigate("live")
    /\ last' = Event("response", "autostart", TRUE, pending[i].inst)
    /\ UNCHANGED <<variant, cmds, inits, msgs>>
    /\ UNCHANGED pollVars

(* The auto-start rejected: catch (alert) and finally. *)
AutoStartFails(i) ==
    /\ i \in AutoStartReqs
    /\ pending' = Remove(pending, i)
    /\ initializing' = FinallyInitializing(i)
    /\ last' = StartSimulationCatch(
                  Event("response", "autostart", FALSE, pending[i].inst))
    /\ UNCHANGED <<variant, route, inst, status, dataHistory, ws,
                   selectedId, cmds, inits, msgs, merges>>
    /\ UNCHANGED pollVars

(* "Back to Home" *)
ScenarioBack ==
    /\ route = "scenarios"
    /\ inst < MaxMounts
    /\ Navigate("home")
    /\ last' = Event("nav", "home", TRUE, inst)
    /\ UNCHANGED <<variant, pending, cmds, inits, msgs>>
    /\ UNCHANGED pollVars

-----------------------------------------------------------------------------
(* The other pages: only their navigation matters here *)

(* Landing: handleEnter ends in navigate('/scenarios'). *)
HandleEnter ==
    /\ route = "home"
    /\ inst < MaxMounts
    /\ Navigate("scenarios")
    /\ last' = Event("nav", "scenarios", TRUE, inst)
    /\ UNCHANGED <<variant, pending, cmds, inits, msgs>>
    /\ UNCHANGED pollVars

(* DeepAnalytics: the links to /live and to /. *)
LeaveAnalytics(target) ==
    /\ route = "analytics"
    /\ target \in {"live", "home"}
    /\ inst < MaxMounts
    /\ Navigate(target)
    /\ last' = Event("nav", target, TRUE, inst)
    /\ UNCHANGED <<variant, pending, cmds, inits, msgs>>
    /\ UNCHANGED pollVars

-----------------------------------------------------------------------------
(* The application *)

(* No polling page is mounted. *)
NoPoller ==
    /\ logs = <<>>
    /\ metrics = NullMetrics
    /\ loading = FALSE
    /\ interval = "none"
    /\ polls = <<>>
    /\ fetches = 0
    /\ fails = 0
    /\ newest = 0

Init ==
    /\ variant \in Variants
    /\ route \in Pages
    /\ inst = 1
    /\ status = IF route = "live" THEN InitialStatus ELSE Empty
    /\ dataHistory = <<>>
    /\ ws = IF route = "live" THEN "connecting" ELSE "none"
    /\ initializing = FALSE
    /\ selectedId = Null
    /\ pending = <<>>
    /\ cmds = 0
    /\ inits = 0
    /\ msgs = 0
    /\ merges = 0
    /\ last = Event("load", route, TRUE, 1)
    /\ NoPoller

(* The handlers of the live page. *)
LiveHandlers ==
    \/ Receive
    \/ ConnectionOpens
    \/ ConnectionLost
    \/ \E a \in ControlActions : HandleControl(a)
    \/ \E i \in DOMAIN pending : ControlSucceeds(i)
    \/ \E i \in DOMAIN pending : ControlFails(i)

(* The handlers of the scenario page. *)
ScenarioHandlers ==
    \/ \E id \in ScenarioIds : SelectScenario(id)
    \/ \E id \in ScenarioIds : HandleStartSimulation(id)
    \/ \E i \in DOMAIN pending : InitializeSucceeds(i)
    \/ \E i \in DOMAIN pending : InitializeFails(i)
    \/ \E i \in DOMAIN pending : AutoStartSucceeds(i)
    \/ \E i \in DOMAIN pending : AutoStartFails(i)

(* The links between the pages. *)
Navigation ==
    \/ \E t \in Pages : LeaveLive(t)
    \/ \E t \in Pages : LeaveAnalytics(t)
    \/ ScenarioBack
    \/ HandleEnter

Next == LiveHandlers \/ ScenarioHandlers \/ Navigation

Spec == Init /\ [][Next]_vars

(* The live page and the navigation alone: no scenario is initialized. *)
NextLive == LiveHandlers \/ Navigation

SpecLive == Init /\ [][NextLive]_vars

(* The scenario page, the navigation and the stream: no command is given *)
(* on the live page.                                                     *)
NextScenario == ScenarioHandlers \/ Navigation \/ ConnectionOpens \/ Receive

SpecScenario == Init /\ [][NextScenario]_vars

-----------------------------------------------------------------------------
(* The chart page under a long, well-formed stream: tick n carries step n. *)

Feed(n) ==
    [kind |-> "object",
     props |-> [step |-> n, isRunning |-> TRUE,
                rl_metrics |-> [waiting_time |-> n % 5, queue_length |-> 3,
                                throughput |-> 7],
                fixed_metrics |-> [waiting_time |-> n % 3, queue_length |-> 4,
                                   throughput |-> 2]]]

Tick ==
    /\ msgs < MaxTicks
    /\ OnMessage(Feed(msgs + 1))

InitHistory ==
    /\ variant = "chart"
    /\ route = "live"
    /\ inst = 1
    /\ status = InitialStatus
    /\ dataHistory = <<>>
    /\ ws = "open"
    /\ initializing = FALSE
    /\ selectedId = Null
    /\ pending = <<>>
    /\ cmds = 0
    /\ inits = 0
    /\ msgs = 0
    /\ merges = 0
    /\ last = Event("load", "live", TRUE, 1)
    /\ NoPoller

NextHistory ==
    \/ Tick
    \/ \E a \in ControlActions : HandleControl(a)
    \/ \E i \in DOMAIN pending : ControlSucceeds(i)
    \/ \E i \in DOMAIN pending : ControlFails(i)

SpecHistory == InitHistory /\ [][NextHistory]_vars

-----------------------------------------------------------------------------
(* The live page under a stream of snapshots that may carry rl_details,   *)
(* with its commands: both pages, connected, never left.                  *)

(* rl_details comes with the metrics of its tick. *)
DetailMessages ==
    {[kind |-> "object", props |-> o] : o \in Objects}
    \cup {[kind |-> "object", props |-> o @@ ("rl_details" :> d)] :
             o \in {x \in Objects :
                       {"rl_metrics", "fixed_metrics"} \subseteq DOMAIN x},
             d \in DetailVals}

ReceiveDetail ==
    /\ msgs < MaxMsgs
    /\ \E m \in DetailMessages : OnMessage(m)

InitStream ==
    /\ variant \in Variants
    /\ route = "live"
    /\ inst = 1
    /\ status = InitialStatus
    /\ dataHistory = <<>>
    /\ ws = "open"
    /\ initializing = FALSE
    /\ selectedId = Null
    /\ pending = <<>>
    /\ cmds = 0
    /\ inits = 0
    /\ msgs = 0
    /\ merges = 0
    /\ last = Event("load", "live", TRUE, 1)
    /\ NoPoller

NextStream ==
    \/ ReceiveDetail
    \/ \E a \in ControlActions : HandleControl(a)
    \/ \E i \in DOMAIN pending : ControlSucceeds(i)
    \/ \E i \in DOMAIN pending : ControlFails(i)

SpecStream == InitStream /\ [][NextStream]_vars

-----------------------------------------------------------------------------
(* The polling pages.  AgentDecision polls the decision log; the           *)
(* DeepAnalytics of AgentDecision.tsx polls the comparison summary (the    *)
(* DeepAnalytics of DeepAnalytics.tsx, the page "analytics" above, shows   *)
(* fixed data and polls nothing).  No link of the application leads to a   *)
(* polling page: it is mounted by its address.                             *)

LogCap == 100

PollerPages == {"decisions", "comparison"}

DecisionLog(s) == [step |-> s, tls_id |-> "tls1", action |-> s % 4]

(* A response of n entries, newest first; its steps repeat with period p: *)
(* period 1 makes every entry the same one.                               *)
LogResponse(n, p) == [i \in 1..n |-> DecisionLog((n - i) % p)]

LogResponses ==
    {LogResponse(n, p) : n \in {0, 2, LogCap, MaxLogs}, p \in {1, MaxLogs + 1}}

(* array.slice(start, end) *)
ArraySlice(s, start, end) ==
    SubSeq(s, start + 1, IF end < Len(s) THEN end ELSE Len(s))

(* The response stored whole. *)
FetchLogsThenAll(prev, data) == data

(* setLogs(response.data.slice(0, 100)) *)
FetchLogsThen(prev, data) == ArraySlice(data, 0, LogCap)

(* A catch block that empties the collection. *)
FetchLogsCatchClears(prev) == <<>>

(* The catch block of fetchLogs: console.error only. *)
FetchLogsCatch(prev) == prev

(* The request of one fetchLogs / fetchMetrics call, the n-th sent. *)
PollRequest(url, n) == [url |-> url, inst |-> inst, n |-> n]

Max(a, b) == IF a > b THEN a ELSE b

(* A handler that drops the answer to a poll older than one it stored. *)
StoresNewerOnly(n) == n > newest

(* The handlers compare no request with another: the answer to the n-th   *)
(* poll is stored whenever it comes.                                      *)
Stores(n) == TRUE

LogPolls == {i \in DOMAIN polls : polls[i].url = "decisions"}

(* The page that sent poll i is the one on screen. *)
PollerMounted(i) == route = polls[i].url /\ polls[i].inst = inst

(* A timer that outlives clearInterval. *)
TickingForever(page) == interval # "none"

(* The interval the effect of the page set calls the fetch: it runs from  *)
(* the mount of the page to the cleanup of its effect.                    *)
Ticking(page) == route = page /\ interval = "set"

(* The setInterval callback of AgentDecision: fetchLogs up to its await. *)
LogsTick ==
    /\ Ticking("decisions")
    /\ fetches < MaxPolls
    /\ polls' = Append(polls, PollRequest("decisions", fetches + 1))
    /\ fetches' = fetches + 1
    /\ last' = Event("tick", "decisions", TRUE, inst)
    /\ UNCHANGED <<route, inst, status, dataHistory, ws, initializing,
                   selectedId, merges, logs, metrics, loading, interval,
                   fails, newest>>
    /\ UNCHANGED engineVars

(* axios.get resolved: the rest of the try block, then finally. *)
FetchLogsSucceeds(i, data) ==
    /\ i \in LogPolls
    /\ polls' = Remove(polls, i)
    /\ IF PollerMounted(i)
       THEN /\ logs' = IF Stores(polls[i].n)
                       THEN FetchLogsThen(logs, data) ELSE logs
            /\ loading' = FALSE
            /\ fails' = 0
            /\ newest' = Max(newest, polls[i].n)
       ELSE UNCHANGED <<logs, loading, fails, newest>>
    /\ last' = Numbered(Answered(Event("poll", "decisions", TRUE,
                                       polls[i].inst),
                                 IF PollerMounted(i) THEN data ELSE Empty),
                        polls[i].n)
    /\ UNCHANGED <<route, inst, status, dataHistory, ws, initializing,
                   selectedId, merges, metrics, interval, fetches>>
    /\ UNCHANGED engineVars

(* axios.get rejected: catch, then finally. *)
FetchLogsFails(i) ==
    /\ i \in LogPolls
    /\ polls' = Remove(polls, i)
    /\ IF PollerMounted(i)
       THEN /\ logs' = FetchLogsCatch(logs)
            /\ loading' = FALSE
            /\ fails' = fails + 1
       ELSE UNCHANGED <<logs, loading, fails>>
    /\ last' = Numbered(Event("poll", "decisions", FALSE, polls[i].inst),
                        polls[i].n)
    /\ UNCHANGED <<route, inst, status, dataHistory, ws, initializing,
                   selectedId, merges, metrics, interval, fetches, newest>>
    /\ UNCHANGED engineVars

(* The page leaves the screen: the effect cleanup clears the interval and *)
(* the state of the page is gone; its requests stay in flight.            *)
UnmountPoller ==
    /\ interval' = "cleared"
    /\ logs' = <<>>
    /\ metrics' = NullMetrics
    /\ loading' = FALSE
    /\ fails' = 0
    /\ newest' = 0
    /\ UNCHANGED <<polls, fetches>>

(* "Back_to_Live" *)
LeaveDecisions ==
    /\ route = "decisions"
    /\ inst < MaxMounts
    /\ Navigate("live")
    /\ UnmountPoller
    /\ last' = Event("nav", "live", TRUE, inst)
    /\ UNCHANGED engineVars

(* A polling page right after its mount: the effect has set the interval  *)
(* and called the fetch once.                                              *)
InitPolls(page) ==
    /\ variant \in Variants
    /\ route = page
    /\ inst = 1
    /\ status = Empty
    /\ dataHistory = <<>>
    /\ ws = "none"
    /\ initializing = FALSE
    /\ selectedId = Null
    /\ pending = <<>>
    /\ cmds = 0
    /\ inits = 0
    /\ msgs = 0
    /\ merges = 0
    /\ last = Event("load", route, TRUE, 1)
    /\ logs = <<>>
    /\ metrics = NullMetrics
    /\ loading = TRUE
    /\ interval = "set"
    /\ polls = <<PollRequest(route, 1)>>
    /\ fetches = 1
    /\ fails = 0
    /\ newest = 0

(* The decision-log page. *)
NextLogs ==
    \/ LogsTick
    \/ \E i \in DOMAIN polls : \E data \in LogResponses :
          FetchLogsSucceeds(i, data)
    \/ \E i \in DOMAIN polls : FetchLogsFails(i)
    \/ LeaveDecisions

InitLogs == InitPolls("decisions")

SpecLogs == InitLogs /\ [][NextLogs]_vars

-----------------------------------------------------------------------------
(* The comparison page.  Metric values are counted in halves: v stands    *)
(* for v / Unit.                                                          *)

(* The 1 of Math.max(..., 1) *)
Unit == 2

MetricVals == 0..MaxVal

AggregateStats(w, q, t) ==
    [avg_waiting_time |-> w, avg_queue_length |-> q, total_throughput |-> t]

(* A summary whose axes compare f with r (wait), g with f (queue) and r   *)
(* with g (throughput).                                                   *)
ComparisonMetrics(f, r, g) ==
    [fixed |-> AggregateStats(f, g, r),
     rl |-> AggregateStats(r, f, g),
     improvement |-> [waiting_time_reduction |-> 0,
                      queue_length_reduction |-> 0,
                      throughput_increase |-> 0],
     time_series |-> [rl_waiting |-> <<r>>, fixed_waiting |-> <<f>>,
                      rl_queue |-> <<f>>, fixed_queue |-> <<g>>]]

(* The endpoint answers a summary; the JSON may carry a field the page    *)
(* does not know.                                                         *)
MetricsResponses ==
    {ComparisonMetrics(f, r, (f + 1) % (MaxVal + 1)) @@ x :
        f \in MetricVals, r \in MetricVals,
        x \in Opt("generated_at", {1})}

(* The response merged into the previous value. *)
FetchMetricsThenMerged(prev, data) ==
    [k \in DOMAIN prev \cup DOMAIN data |->
        IF k \in DOMAIN data THEN data[k] ELSE prev[k]]

(* setMetrics(response.data) *)
FetchMetricsThen(prev, data) == data

MetricsPolls == {i \in DOMAIN polls : polls[i].url = "comparison"}

(* The setInterval callback of DeepAnalytics: fetchMetrics up to its await. *)
MetricsTick ==
    /\ Ticking("comparison")
    /\ fetches < MaxPolls
    /\ polls' = Append(polls, PollRequest("comparison", fetches + 1))
    /\ fetches' = fetches + 1
    /\ last' = Event("tick", "comparison", TRUE, inst)
    /\ UNCHANGED <<route, inst, status, dataHistory, ws, initializing,
                   selectedId, merges, logs, metrics, loading, interval,
                   fails, newest>>
    /\ UNCHANGED engineVars

(* axios.get resolved: setMetrics and setLoading(false). *)
FetchMetricsSucceeds(i, data) ==
    /\ i \in MetricsPolls
    /\ polls' = Remove(polls, i)
    /\ IF PollerMounted(i)
       THEN /\ metrics' = IF Stores(polls[i].n)
                          THEN FetchMetricsThen(metrics, data) ELSE metrics
            /\ loading' = FALSE
            /\ fails' = 0
            /\ newest' = Max(newest, polls[i].n)
       ELSE UNCHANGED <<metrics, loading, fails, newest>>
    /\ last' = Numbered(Answered(Event("poll", "comparison", TRUE,
                                       polls[i].inst),
                                 IF PollerMounted(i) THEN data ELSE Empty),
                        polls[i].n)
    /\ UNCHANGED <<route, inst, status, dataHistory, ws, initializing,
                   selectedId, merges, logs, interval, fetches>>
    /\ UNCHANGED engineVars

(* A catch block followed by the finally of fetchLogs. *)
FetchMetricsCatchFinally(prev) == FALSE

(* The catch block of fetchMetrics: console.error only, and there is no   *)
(* finally: loading keeps its value.                                      *)
FetchMetricsCatch(prev) == prev

(* axios.get rejected. *)
FetchMetricsFails(i) ==
    /\ i \in MetricsPolls
    /\ polls' = Remove(polls, i)
    /\ fails' = IF PollerMounted(i) THEN fails + 1 ELSE fails
    /\ loading' = IF PollerMounted(i) THEN FetchMetricsCatch(loading)
                                      ELSE loading
    /\ last' = Numbered(Event("poll", "comparison", FALSE, polls[i].inst),
                        polls[i].n)
    /\ UNCHANGED <<route, inst, status, dataHistory, ws, initializing,
                   selectedId, merges, logs, metrics, interval,
                   fetches, newest>>
    /\ UNCHANGED engineVars

(* The logo (navigate('/')) and the LIVE CONTROL tab; they are rendered   *)
(* once the page has left its loading screen.                             *)
LeaveComparison(target) ==
    /\ route = "comparison"
    /\ ~loading /\ metrics # NullMetrics
    /\ target \in {"home", "live"}
    /\ inst < MaxMounts
    /\ Navigate(target)
    /\ UnmountPoller
    /\ last' = Event("nav", target, TRUE, inst)
    /\ UNCHANGED engineVars

InitMetrics == InitPolls("comparison")

NextMetrics ==
    \/ MetricsTick
    \/ \E i \in DOMAIN polls : \E data \in MetricsResponses :
          FetchMetricsSucceeds(i, data)
    \/ \E i \in DOMAIN polls : FetchMetricsFails(i)
    \/ \E t \in Pages : LeaveComparison(t)

SpecMetrics == InitMetrics /\ [][NextMetrics]_vars

(* Math.max(a, b, c) *)
Max3(a, b, c) ==
    IF a >= b /\ a >= c THEN a ELSE IF b >= c THEN b ELSE c

(* The divisor without its guard. *)
RadarMaxUnguarded(a, b) == Max3(a, b, 0)

(* Math.max(fixed, rl, 1) *)
RadarMax(a, b) == Max3(a, b, Unit)

(* 100 - (v / m * 100) *)
RadarInverted(v, m) == Ratio(100 * m - v * 100, m)

(* v / m * 100 *)
RadarDirect(v, m) == Ratio(v * 100, m)

(* radarData, as DeepAnalytics computes it from metrics on every render. *)
RadarData(mt) ==
    LET maxWait == RadarMax(mt.fixed.avg_waiting_time, mt.rl.avg_waiting_time)
        maxQueue == RadarMax(mt.fixed.avg_queue_length, mt.rl.avg_queue_length)
        maxThroughput ==
            RadarMax(mt.fixed.total_throughput, mt.rl.total_throughput)
    IN  <<[subject |-> "Efficiency (Wait)",
           A |-> RadarInverted(mt.fixed.avg_waiting_time, maxWait),
           B |-> RadarInverted(mt.rl.avg_waiting_time, maxWait)],
          [subject |-> "Throughput",
           A |-> RadarDirect(mt.fixed.total_throughput, maxThroughput),
           B |-> RadarDirect(mt.rl.total_throughput, maxThroughput)],
          [subject |-> "Queue Flow",
           A |-> RadarInverted(mt.fixed.avg_queue_length, maxQueue),
           B |-> RadarInverted(mt.rl.avg_queue_length, maxQueue)]>>

(* Either polling page. *)
InitPollers == \E page \in PollerPages : InitPolls(page)

NextPollers == NextLogs \/ NextMetrics

SpecPollers == InitPollers /\ [][NextPollers]_vars

-----------------------------------------------------------------------------
(* Properties *)

Min(a, b) == IF a < b THEN a ELSE b

(* The view that made request i is the one on screen. *)
OwnerMounted(i) == route = "live" /\ pending[i].inst = inst

(* C1: for every state S and every decoded object P, the state after the   *)
(* merge equals P on every top-level field of P and S on every other.      *)
C1_MergeAgrees ==
    [][\A m \in Messages :
         (m.kind = "object" /\ OnMessage(m)) =>
            /\ route' = "live"
            /\ \A k \in DOMAIN m.props :
                  k \in DOMAIN status' /\ status'[k] = m.props[k]
            /\ \A k \in DOMAIN status \ DOMAIN m.props :
                  k \in DOMAIN status' /\ status'[k] = status[k]]_vars

(* C2: a message that does not decode as an object is discarded: state and *)
(* history stay as they were and the stream goes on being merged (the view *)
(* stays mounted with its socket open).                                    *)
C2_NonObjectDiscarded ==
    [][\A m \in Messages :
         (m.kind # "object" /\ OnMessage(m)) =>
            UNCHANGED <<status, dataHistory, route, ws>>]_vars

(* C3: the live history never holds more than 50 samples, whatever the     *)
(* interleaving of merges and start/stop/reset commands.                   *)
C3_HistoryBounded == Len(dataHistory) <= HistoryCap

C3_Witness ==
    /\ Len(dataHistory) = HistoryCap
    /\ merges > HistoryCap
    /\ cmds > 0
    /\ pending = <<>>

(* The sample of tick n, as the stream defines it. *)
FeedSample(n) == [step |-> n, rl_wait |-> n % 5, fixed_wait |-> n % 3]

(* C4: after n merges since the history was last empty, the history is the *)
(* samples of the last min(n, 50) merges, oldest first; after 60 merges it *)
(* is the samples of merges 11 to 60.                                      *)
C4_HistoryIsLastMerges ==
    LET k == Min(merges, HistoryCap)
    IN  /\ Len(dataHistory) = k
        /\ \A i \in 1..k : dataHistory[i] = FeedSample(msgs - k + i)
        /\ (merges = 60 /\ msgs = 60) =>
              /\ dataHistory[1].step = 11
              /\ dataHistory[Len(dataHistory)].step = 60

C4_Witness ==
    /\ merges = 60
    /\ msgs = 60
    /\ Len(dataHistory) = HistoryCap

(* The sample the canonical state s stands for. *)
CanonicalSample(s) ==
    [step |-> Field(s, "step"),
     rl_wait |-> Field(s["rl_metrics"], "waiting_time"),
     fixed_wait |-> Field(s["fixed_metrics"], "waiting_time")]

(* C5: every successful merge appends exactly one sample, whose step,      *)
(* rl_wait and fixed_wait are those of the canonical state after the       *)
(* merge, also for a snapshot that omits step or a metrics object.         *)
C5_SampleIsCanonical ==
    [][\A m \in Messages :
         (variant = "chart" /\ m.kind = "object" /\ OnMessage(m)) =>
            /\ route' = "live"
            /\ dataHistory' =
                  SliceLast(Append(dataHistory, CanonicalSample(status')),
                            HistoryCap)]_vars

(* C6: right after a reset succeeded for the view on screen, the state is  *)
(* the zero state and the history is empty, whatever they were before.     *)
C6_ResetZeroes ==
    (last.op = "response" /\ last.arg = "reset" /\ last.ok
        /\ route = "live" /\ last.by = inst) =>
       /\ status["step"] = 0
       /\ status["isRunning"] = FALSE
       /\ status["rl_metrics"] = ZeroMetrics
       /\ status["fixed_metrics"] = ZeroMetrics
       /\ dataHistory = <<>>

C6_Witness ==
    /\ last.op = "response" /\ last.arg = "reset" /\ last.ok
    /\ route = "live" /\ last.by = inst
    /\ variant = "chart"
    /\ msgs > 0
    /\ dataHistory = <<>>

(* C7: a failed start, stop or reset changes neither the state nor the     *)
(* history.                                                                *)
C7_FailureChangesNothing ==
    [][\A i \in DOMAIN pending :
         ControlFails(i) => UNCHANGED <<status, dataHistory>>]_vars

C7_Witness ==
    /\ last.op = "response" /\ last.arg = "stop" /\ ~last.ok
    /\ route = "live" /\ last.by = inst
    /\ status["isRunning"]
    /\ msgs > 0

(* C8: every failed start, stop, reset or initialize is surfaced to the    *)
(* user: an alert is shown or a displayed state changes.                   *)
C8_FailureSurfaced ==
    [][\A i \in DOMAIN pending :
         (ControlFails(i) \/ InitializeFails(i) \/ AutoStartFails(i)) =>
            (last'.alert \/ status' # status)]_vars

(* C9: issuing a command changes nothing locally; the success response    *)
(* of start sets isRunning and that of stop clears it; and isRunning never *)
(* changes in a mounted view except by a merge or a success response.      *)
C9_AppliedOnSuccessOnly ==
    [][/\ \A a \in ControlActions :
             HandleControl(a) => UNCHANGED <<status, dataHistory>>
       /\ \A i \in DOMAIN pending :
             (ControlSucceeds(i) /\ OwnerMounted(i)) =>
                /\ pending[i].url = "start" => status'["isRunning"] = TRUE
                /\ pending[i].url = "stop" => status'["isRunning"] = FALSE
       /\ (route = "live" /\ route' = "live" /\ inst' = inst
             /\ status'["isRunning"] # status["isRunning"]) =>
                \/ last'.op = "message" /\ last'.ok
                \/ last'.op = "response" /\ last'.ok]_vars

C9_Witness ==
    /\ last.op = "response" /\ last.arg = "start" /\ last.ok
    /\ route = "live" /\ last.by = inst
    /\ status["isRunning"]
    /\ \E i \in ControlReqs : pending[i].url = "stop"

(* The auto-start requests in flight in q. *)
AutoStarts(q) ==
    {j \in DOMAIN q : q[j].url = "start" /\ q[j].from = "scenario"}

(* C10: initialize changes no simulation state locally; a start request    *)
(* is sent exactly when an initialize request succeeded, in the step that  *)
(* receives its answer and for the same caller; a failed initialize sends  *)
(* nothing.                                                                *)
C10_StartIffInitialized ==
    [][/\ Cardinality(AutoStarts(pending')) > Cardinality(AutoStarts(pending))
            => /\ last'.op = "response" /\ last'.arg = "initialize"
               /\ last'.ok
               /\ pending'[Len(pending')].inst = last'.by
       /\ \A i \in DOMAIN pending :
             InitializeSucceeds(i) =>
                /\ Cardinality(AutoStarts(pending'))
                      = Cardinality(AutoStarts(pending)) + 1
                /\ UNCHANGED <<status, dataHistory>>
       /\ \A i \in DOMAIN pending :
             InitializeFails(i) =>
                /\ Len(pending') = Len(pending) - 1
                /\ AutoStarts(pending') = AutoStarts(Remove(pending, i))
                /\ UNCHANGED <<status, dataHistory>>
       /\ \A id \in ScenarioIds :
             HandleStartSimulation(id) =>
                /\ AutoStarts(pending') = AutoStarts(pending)
                /\ UNCHANGED <<status, dataHistory>>]_vars

C10_Witness ==
    /\ last.op = "response" /\ last.arg = "initialize" /\ last.ok
    /\ AutoStarts(pending) # {}
    /\ inits > 0

(* The start/stop/reset requests in flight in q. *)
ControlsIn(q) == {j \in DOMAIN q : q[j].from = "control"}

(* C11: each call of start, stop or reset sends exactly one request, and   *)
(* a failed request is not sent again: the requests in flight grow only by *)
(* a call, by one, and a failure only removes the failed one.              *)
C11_OneRequestNoRetry ==
    [][/\ \A a \in ControlActions :
             HandleControl(a) =>
                /\ Len(pending') = Len(pending) + 1
                /\ SubSeq(pending', 1, Len(pending)) = pending
                /\ pending'[Len(pending')].url = a
                /\ pending'[Len(pending')].from = "control"
       /\ \A i \in DOMAIN pending :
             ControlFails(i) => pending' = Remove(pending, i)
       /\ Cardinality(ControlsIn(pending')) > Cardinality(ControlsIn(pending))
             => /\ last'.op = "issue"
                /\ Cardinality(ControlsIn(pending'))
                      = Cardinality(ControlsIn(pending)) + 1]_vars

C11_Witness ==
    /\ last.op = "response" /\ last.arg \in ControlActions /\ ~last.ok
    /\ route = "live" /\ last.by = inst
    /\ cmds = 1
    /\ pending = <<>>

C13_FailureKeepsLogsAndPolling ==
    /\ [](route = "decisions" =>
            /\ interval = "set"
            /\ fetches < MaxPolls => ENABLED LogsTick)
    /\ [][/\ \A i \in DOMAIN polls :
               FetchLogsFails(i) => UNCHANGED <<logs, interval>>
          /\ LogsTick =>
               /\ Len(polls') = Len(polls) + 1
               /\ polls'[Len(polls')] = PollRequest("decisions", fetches')]_vars

C13_Witness ==
    /\ route = "decisions"
    /\ last.op = "tick"
    /\ fails >= 2
    /\ logs # <<>>

(* C14: the decision log never holds two identical entries, also when   *)
(* the polled response holds duplicates.                                 *)
C14_LogsDeduplicated ==
    \A i, j \in DOMAIN logs : i # j => logs[i] # logs[j]

(* C15: a successful comparison poll of the page on screen replaces the  *)
(* metrics by the response, field for field and with no field of the     *)
(* previous value left; a failed poll leaves them as they were.          *)
C15_MetricsReplacedWholesale ==
    [][/\ (last'.op = "poll" /\ last'.ok /\ polls' # polls
             /\ route = "comparison" /\ last'.by = inst) =>
                /\ metrics' = last'.data
                /\ DOMAIN metrics' = DOMAIN last'.data
       /\ \A i \in DOMAIN polls :
             FetchMetricsFails(i) => UNCHANGED metrics]_vars

C15_Witness ==
    /\ last.op = "poll" /\ last.ok
    /\ route = "comparison" /\ last.by = inst
    /\ fetches > 1
    /\ "generated_at" \notin DOMAIN metrics
    /\ metrics # NullMetrics

(* The score is a number between 0 and 100: its divisor is not zero. *)
InRange(q) == q.den > 0 /\ 0 <= q.num /\ q.num <= 100 * q.den

(* C16: whatever non-negative values the metrics hold, both scores of    *)
(* each radar axis lie in [0, 100] and no divisor is zero, also when     *)
(* both values are zero or both are below 1.                             *)
C16_RadarInRange ==
    (route = "comparison" /\ metrics # NullMetrics) =>
        \A k \in DOMAIN RadarData(metrics) :
            /\ InRange(RadarData(metrics)[k].A)
            /\ InRange(RadarData(metrics)[k].B)

C16_Witness ==
    /\ route = "comparison" /\ metrics # NullMetrics
    /\ metrics.fixed.avg_waiting_time = 0 /\ metrics.rl.avg_waiting_time = 0
    /\ metrics.fixed.avg_queue_length > 0
    /\ metrics.fixed.avg_queue_length < Unit
    /\ metrics.rl.avg_queue_length < Unit

(* C17: on the chart page the efficiency gain is exactly 0 whenever the  *)
(* fixed waiting time is 0, whatever the RL waiting time (its divisor is *)
(* never 0); when the fixed waiting time is positive it is               *)
(* (fixed - rl) / fixed * 100.                                           *)
C17_GainZeroOnZeroFixed ==
    (route = "live" /\ variant = "chart") =>
        LET f == status["fixed_metrics"]["waiting_time"]
            r == status["rl_metrics"]["waiting_time"]
            g == EfficiencyGain(status)
        IN  /\ g.den > 0
            /\ f = 0 => (g.num = 0 /\ EfficiencyGainText(status) = 0)
            /\ f > 0 => g.num * f = (f - r) * 100 * g.den

C17_Witness ==
    /\ route = "live" /\ variant = "chart"
    /\ status["fixed_metrics"]["waiting_time"] = 0
    /\ status["rl_metrics"]["waiting_time"] > 0
    /\ msgs > 0

(* C18: on both live pages the socket is closed when the page is torn   *)
(* down: no page other than the live page has a socket connecting or     *)
(* open, the step that takes the live page off the screen leaves its     *)
(* socket closed, a message is handled only by a mounted live page with  *)
(* an open socket, and with no live page on screen the state changes     *)
(* only by the mount of a new one.                                       *)
C18_ClosedOnTeardown ==
    /\ [](route # "live" => ws \notin {"connecting", "open"})
    /\ [][/\ (route = "live" /\ route' # "live") => ws' = "closed"
          /\ msgs' # msgs => (route = "live" /\ ws = "open")
          /\ (route # "live" /\ status' # status) =>
                (route' = "live" /\ status' = InitialStatus)]_vars

C18_Witness ==
    /\ route \notin {"live", "blank"}
    /\ ws = "closed"
    /\ last.op = "nav"
    /\ msgs > 0 /\ msgs < MaxMsgs

(* C19: a live page opens one socket in its lifetime: a socket starts     *)
(* connecting only in the step that mounts a live page, it opens only    *)
(* from connecting, and once it is closed it stays closed for as long as *)
(* the same page is on screen.                                           *)
C19_OneConnectionPerView ==
    [][/\ (ws' = "connecting" /\ ws # "connecting") =>
             (route' = "live" /\ inst' # inst)
       /\ (ws' = "open" /\ ws # "open") => (ws = "connecting" /\ inst' = inst)
       /\ (ws = "closed" /\ inst' = inst) => ws' = "closed"]_vars

C19_Witness ==
    /\ route = "live" /\ ws = "closed"
    /\ last.op = "response" /\ last.by = inst
    /\ msgs > 0

(* C20: snapshots are merged in arrival order with no check of their     *)
(* sequence: after each snapshot that carries a step has been handled,   *)
(* the canonical step is the step of that snapshot, also when it is      *)
(* smaller than the step before.                                         *)
C20_StepIsLastArrived ==
    [][\A m \in Messages :
         (m.kind = "object" /\ Has(m, "step") /\ OnMessage(m)) =>
            /\ route' = "live"
            /\ status'["step"] = m.props["step"]]_vars

(* What the pages show: the page on screen and the state of its hooks. *)
viewVars == <<route, inst, status, dataHistory, ws, initializing, selectedId,
              logs, metrics, loading, interval>>

(* C21: the answer to a poll or a command whose page is no longer on     *)
(* screen is ignored: the step that handles it changes no state of any   *)
(* page.                                                                 *)
C21_LateResponseIgnored ==
    [][(last'.op \in {"response", "poll"} /\ last' # last
          /\ (last'.by # inst \/ route = "blank")) =>
             UNCHANGED viewVars]_vars

(* C22: a successful start or stop changes isRunning and nothing else:   *)
(* step, both metric sets, rl_details and the history are, after the     *)
(* response, what they were when it arrived, whatever snapshots were     *)
(* merged while the request was in flight.                               *)
C22_StartStopFrame ==
    [][\A i \in DOMAIN pending :
         (ControlSucceeds(i) /\ OwnerMounted(i)
            /\ pending[i].url \in {"start", "stop"}) =>
               /\ dataHistory' = dataHistory
               /\ DOMAIN status' = DOMAIN status
               /\ \A k \in DOMAIN status \ {"isRunning"} :
                     status'[k] = status[k]]_vars

C22_Witness ==
    /\ last.op = "response" /\ last.arg \in {"start", "stop"} /\ last.ok
    /\ route = "live" /\ last.by = inst
    /\ variant = "chart"
    /\ msgs = MaxMsgs
    /\ status["step"] = 2
    /\ "rl_details" \in DOMAIN status
    /\ status["fixed_metrics"] # ZeroMetrics
    /\ Len(dataHistory) = MaxMsgs

NestedVals ==
    [rl_metrics |-> RlVals, fixed_metrics |-> FixedVals,
     rl_details |-> DetailVals]

(* C24: the merge is shallow: merging a snapshot that carries rl_metrics, *)
(* fixed_metrics or rl_details makes that whole nested value the         *)
(* snapshot's, so that after a merge a nested value is the one before or *)
(* one a snapshot carries, never a mixture that keeps sub-fields the     *)
(* snapshot omits.                                                       *)
C24_MergeIsShallow ==
    /\ [](route = "live" =>
            \A m \in DetailMessages :
               \A k \in DOMAIN NestedVals \cap DOMAIN m.props :
                  /\ MergeSnapshot(status, m)[k] = m.props[k]
                  /\ DOMAIN MergeSnapshot(status, m)[k] = DOMAIN m.props[k])
    /\ [][(last'.op = "message" /\ last'.ok /\ msgs' # msgs) =>
            \A k \in DOMAIN NestedVals \cap DOMAIN status' :
               \/ k \in DOMAIN status /\ status'[k] = status[k]
               \/ status'[k] \in NestedVals[k]]_vars

C24_Witness ==
    /\ route = "live"
    /\ last.op = "message" /\ last.ok
    /\ "queue_length" \notin DOMAIN status["fixed_metrics"]
    /\ "rl_details" \in DOMAIN status
    /\ "queue_length" \notin DOMAIN status["rl_details"][1]
    /\ msgs = 2

(* C25: merging the same snapshot a second time leaves the state as the  *)
(* first merge made it, while the history takes a sample each time: two  *)
(* samples with the same step follow one another, none is dropped for    *)
(* its step.                                                             *)
C25_IdempotentStateNotHistory ==
    /\ [](route = "live" =>
            \A m \in DetailMessages :
               /\ MergeSnapshot(MergeSnapshot(status, m), m)
                     = MergeSnapshot(status, m)
               /\ (variant = "chart" /\ ~SampleThrows(m)) =>
                     LET h1 == AppendHistory(dataHistory, m)
                         h2 == AppendHistory(h1, m)
                     IN  /\ Len(h2) = Min(Len(dataHistory) + 2, HistoryCap)
                         /\ h2[Len(h2)] = HistorySample(m)
                         /\ h2[Len(h2) - 1] = HistorySample(m))
    /\ [][(variant = "chart" /\ last'.op = "message" /\ last'.ok
             /\ msgs' # msgs) =>
               Len(dataHistory') = Min(Len(dataHistory) + 1, HistoryCap)]_vars

C25_Witness ==
    /\ route = "live" /\ variant = "chart"
    /\ last.op = "message" /\ last.ok
    /\ msgs = 2 /\ cmds = 0
    /\ Len(dataHistory) = 2
    /\ dataHistory[1] = dataHistory[2]
    /\ dataHistory[1].step = 1
    /\ status["step"] = 1

(* C26: when polls of one page overlap, the collection is the data of    *)
(* the answer handled last: every answer handled by the mounted page is  *)
(* stored, also the answer to a poll sent before one whose answer is     *)
(* already stored, which then replaces the newer data; so for the log    *)
(* and for the metrics.                                                  *)
C26_LastResolvedWins ==
    [][(last'.op = "poll" /\ last'.ok /\ polls' # polls
          /\ route \in PollerPages /\ last'.by = inst) =>
             /\ route = "decisions" =>
                   logs' = ArraySlice(last'.data, 0, LogCap)
             /\ route = "comparison" => metrics' = last'.data
             /\ last'.seq < newest => newest' = newest]_vars

C26_Witness ==
    /\ route = "comparison" /\ last.by = inst
    /\ last.op = "poll" /\ last.ok
    /\ last.seq < newest
    /\ metrics = last.data
    /\ metrics # NullMetrics

(* C27: each polling page calls its fetch once when it mounts and once   *)
(* per tick of its interval, and at no other time; the teardown of the   *)
(* page cancels the interval, so no fetch is issued after it.            *)
C27_FetchOnMountAndPerTick ==
    /\ [](last.op = "load" =>
             /\ route \in PollerPages /\ interval = "set"
             /\ fetches = 1 /\ polls = <<PollRequest(route, 1)>>)
    /\ [](route \notin PollerPages => interval = "cleared")
    /\ [][/\ polls' # polls =>
              \/ \E i \in DOMAIN polls : polls' = Remove(polls, i)
              \/ fetches' = fetches + 1
          /\ fetches' # fetches =>
              /\ route \in PollerPages /\ route' = route
              /\ interval = "set"
              /\ last'.op = "tick"
              /\ fetches' = fetches + 1
              /\ polls' = Append(polls, PollRequest(route, fetches'))
          /\ route \notin PollerPages => fetches' = fetches]_vars

C27_Witness ==
    /\ route \notin PollerPages
    /\ interval = "cleared"
    /\ fetches = 3
    /\ Len(polls) = 2
    /\ last.op = "poll"

(* The comparison page renders its loading screen. *)
LoadingScreen == loading \/ metrics = NullMetrics

(* C28: the comparison page stays on its loading screen until the first  *)
(* successful poll, and a failed poll never ends it; the decision-log    *)
(* page ends loading when its first fetch completes, succeeded or        *)
(* failed; once loading has ended on a page it is never true again.      *)
C28_LoadingEnds ==
    /\ []((route = "comparison" /\ newest = 0) => (loading /\ LoadingScreen))
    /\ []((route = "comparison" /\ newest > 0) => ~LoadingScreen)
    /\ []((route = "decisions" /\ loading) => (newest = 0 /\ fails = 0))
    /\ [][/\ (route = "comparison" /\ route' = route /\ polls' # polls
                /\ last'.op = "poll" /\ ~last'.ok) =>
                   (loading' = loading /\ LoadingScreen' = LoadingScreen)
          /\ (route = "decisions" /\ route' = route /\ last'.by = inst
                /\ Len(polls') < Len(polls)) => ~loading'
          /\ (route \in PollerPages /\ route' = route /\ ~loading) =>
                   ~loading']_vars

C28_Witness ==
    /\ route = "comparison"
    /\ loading /\ metrics = NullMetrics
    /\ last.op = "poll" /\ ~last.ok /\ last.by = inst
    /\ fails = 2

(* The requests of the start sequence of the page on screen. *)
SequenceReqs ==
    {i \in DOMAIN pending :
        pending[i].from = "scenario" /\ pending[i].inst = inst}

=============================================================================
